---- MODULE Spec2Model ----
(***************************************************************************)
(* Repository layer of the materials-estimation backend:                   *)
(*   backend/src/repositories/base.py          generic CRUD                *)
(*   backend/src/repositories/shopping_list.py totals, purchase marking    *)
(*   backend/src/repositories/retailer.py      price comparison            *)
(* over one AsyncSession built by core/database.py                         *)
(* (expire_on_commit=False, autoflush=False).                              *)
(*                                                                         *)
(* Money columns are Numeric(10,2): modelled as integers counting cents.   *)
(* Quantity columns are Numeric(10,3): integers counting thousandths.      *)
(* An Optional value is a sequence of length 0 (None) or 1 (the value).    *)
(***************************************************************************)
EXTENDS Integers, Sequences, FiniteSets, TLC

VARIABLES
    lists,      \* table shopping_lists: id -> row
    items,      \* table shopping_list_items: id -> row
    nextList,   \* ids are fresh (uuid4): the next id never used before
    nextItem,
    sess,       \* the session's identity map for ShoppingList objects
    ghost,      \* item objects of deleted rows still held by a loaded collection
    prices,     \* table retailer_prices: id -> row
    nextPrice,
    store,      \* every table by its keys and modelled columns: <<model, id>> -> row
    nextId,     \* the next uuid4 of a row of store
    held,       \* UserProfile objects the caller holds with projects loaded
    now,        \* the clock, in days
    txn,        \* per concurrent session: the call it is in the middle of
    done,       \* what the calls of the concurrent sessions committed
    last        \* the last repository call: its name, arguments and result

vars == <<lists, items, nextList, nextItem, sess, ghost, prices, nextPrice,
          store, nextId, held, now, txn, done, last>>
shopVars == <<lists, items, nextList, nextItem, sess, ghost>>
retailVars == <<prices, nextPrice>>
genVars == <<store, nextId, held>>
raceVars == <<txn, done>>

----------------------------------------------------------------------------
(* Bounds of the model *)

MaxLists == 2
MaxItems == 2
MaxPrices == 3
\* the lists of the purchase-marking specification
MaxPurchaseLists == 1
\* the staleness specification: rows, days the clock runs, largest days_old
MaxStalePrices == 2
MaxClock == 2
MaxDays == 2
\* ids the generic repository generates
MaxIds == 4
\* the largest limit a paged query is given
MaxLimit == 2
\* ids generated in the specification of the generic contract
MaxCrudIds == 3
\* retailer prices written in the specification of price versions
MaxVersions == 3
\* items in the specifications of concurrent sessions
MaxRaceItems == 1
\* rows of the table a caller pages through
MaxPageRows == 3
\* ids in the specification of the subscription lookups
MaxLookupIds == 4
\* clock ticks in the specification of the generic contract
MaxCrudClock == 1
\* the latest current_period_end, in days
MaxPeriodEnd == 2

ListIds == 1..MaxLists
ItemIds == 1..MaxItems
PriceIds == 1..MaxPrices

\* Stripe customer ids and Stripe subscription ids
Customers == {"cus_1", "cus_2"}
StripeSubscriptions == {"sub_1", "sub_2"}

\* the sessions that run calls concurrently, one request each
Sessions == {"a", "b"}
\* a session between calls
Idle == [pc |-> "idle"]

None == <<>>
Some(v) == <<v>>
Val(o) == o[1]

\* estimated_total_cost values (cents) an item is created or updated with
EstVals == {None, Some(250)}
\* actual_purchase_quantity values (thousandths)
QtyVals == {1500}
\* retailer_prices: material_name, unit_price (cents), availability_status
Materials == {"paint", "tile"}
UnitPrices == {0, 2999}
Availability == {"in_stock", "out_of_stock", "unknown"}
Retailers == {"home_depot", "lowes", "menards", "ace_hardware"}
\* rows created: every price and status for paint, and for tile the row that
\* would win any query for paint that forgot the material
PriceInputs ==
    ({"paint"} \X UnitPrices \X Availability) \cup {<<"tile", 0, "in_stock">>}
\* get_stale_prices: the rows created (material, availability) and the
\* thresholds asked for; a negative days_old puts the cutoff in the future
StaleInputs == {<<"paint", "in_stock">>, <<"tile", "out_of_stock">>,
                <<"paint", "unknown">>}
DaysOld == (0 - 1)..MaxDays
\* ids the callers of the generic repository pass
GenIds == 1..MaxIds
\* projects: the maps create and update are given (sku names no column) and
\* the filters of get_multi and count
CrudIds == 1..MaxCrudIds
\* an id the caller makes up; uuid4 never generates it
CallerIds == {0}
ProjectInputs == {[user_id |-> 1], [user_id |-> 1, sku |-> "x"]}
ProjectUpdates ==
    {[status |-> "completed"], [status |-> "draft", sku |-> "x"]}
ProjectFilters ==
    {<< >>, [status |-> "draft", user_id |-> 1],
     [status |-> "draft", user_id |-> 1, sku |-> "x"]}
\* subscriptions: status, current_period_end (a day or NULL), thresholds
\* created on the threshold when not active, and active with every period end
Thresholds == {1}
PeriodEnds == {None} \cup {Some(t) : t \in 0..MaxPeriodEnd}
SubInputs ==
    ({"active"} \X PeriodEnds)
        \cup ({"canceled", "past_due", "trialing"} \X {Some(1)})
\* the columns written with values of a fixed vocabulary, and the rating
DomainColumns(T) ==
    CASE T = "UserProfile"      -> {"skill_level"}
      [] T = "Subscription"     -> {"tier", "status"}
      [] T = "Project"          -> {"status"}
      [] T = "ShoppingListItem" -> {"purchase_status"}
      [] T = "ProjectFeedback"  -> {"rating"}
      [] T = "RetailerPrice"    -> {"availability_status", "retailer_name"}
      [] OTHER                  -> {}
\* values written to those columns: for each, some the check accepts and
\* some it rejects
DomainValues(T, c) ==
    CASE c = "skill_level"         -> {"expert", "guru"}
      [] c = "tier"                -> {"pro", "gold"}
      [] c = "status"              ->
            IF T = "Project" THEN {"completed", "archived"}
            ELSE {"trialing", "paused"}
      [] c = "purchase_status"     -> {"purchased", "skipped"}
      [] c = "availability_status" -> {"in_stock", "backorder"}
      [] c = "retailer_name"       -> {"menards", "walmart"}
      [] c = "rating"              -> {Some(0), Some(5), Some(6)}
\* retailer prices written for a (material, retailer) combination
VersionInputs ==
    {[material_name |-> "paint", retailer_name |-> r, unit_price |-> p] :
        r \in {"lowes", "home_depot"}, p \in UnitPrices}
\* subscriptions by status, period end and cancellation flag
CancelInputs ==
    {<<"active", None, TRUE>>, <<"canceled", Some(1), TRUE>>,
     <<"past_due", Some(0), FALSE>>, <<"trialing", Some(1), TRUE>>}
\* mark_purchased: actual_unit_price (cents), actual_quantity (thousandths or omitted)
PaidVals == {333, 0 - 333}
PaidQtyVals == {None, Some(0), Some(1)}

----------------------------------------------------------------------------
(* Helpers *)

\* rows of shopping_list_items whose foreign key is l
ItemsOf(l) == {i \in DOMAIN items : items[i].shopping_list_id = l}

\* Remove key k from function f
Without(f, K) == [x \in (DOMAIN f) \ K |-> f[x]]
With(f, k, v) == [x \in (DOMAIN f) \cup {k} |-> IF x = k THEN v ELSE f[x]]

\* the model default of ShoppingList.total_estimated_cost, Decimal("0.00")
DefaultTotal == 0

\* item.estimated_total_cost or Decimal("0.00")
OrZero(o) == IF o = None THEN 0 ELSE Val(o)

\* the estimated_total_cost the session's object of item i carries: the row's
\* value for a live row (every write goes through this session and is
\* refreshed), the value at deletion for the object of a deleted row
ObjEst(i) == IF i \in DOMAIN items THEN items[i].estimated_total_cost ELSE ghost[i]

\* sum(item.estimated_total_cost or Decimal("0.00") for item in S)
RECURSIVE SumCosts(_)
SumCosts(S) ==
    IF S = {} THEN 0
    ELSE LET x == CHOOSE y \in S : TRUE
         IN  OrZero(ObjEst(x)) + SumCosts(S \ {x})

\* objects of deleted rows that a loaded collection of sessMap still references
Referenced(sessMap) == UNION {sessMap[l].coll : l \in DOMAIN sessMap}
PruneGhost(sessMap) == [i \in (DOMAIN ghost) \cap Referenced(sessMap) |-> ghost[i]]

----------------------------------------------------------------------------
Init ==
    /\ lists = << >>
    /\ items = << >>
    /\ nextList = 1
    /\ nextItem = 1
    /\ sess = << >>
    /\ ghost = << >>
    /\ prices = << >>
    /\ nextPrice = 1
    /\ store = << >>
    /\ nextId = 1
    /\ held = << >>
    /\ now = 0
    /\ txn = [s \in Sessions |-> Idle]
    /\ done = [total |-> [l \in ListIds |-> None],
               pairs |-> [i \in ItemIds |-> {}]]
    /\ last = [op |-> "init"]

----------------------------------------------------------------------------
(* BaseRepository over ShoppingList *)

\* a ShoppingList object as the session holds it: whether it was first loaded
\* with the selectinload option (state.load_options), whether its items
\* collection is loaded, and the item objects the collection holds
NewListObj == [opts |-> FALSE, loaded |-> FALSE, coll |-> {}]

\* BaseRepository.create on ShoppingList: one new row with the model default
\* total; the returned object stays in the session, its items never loaded
CreateList ==
    /\ nextList <= MaxLists
    /\ lists' = With(lists, nextList, [total_estimated_cost |-> DefaultTotal])
    /\ nextList' = nextList + 1
    /\ sess' = With(sess, nextList, NewListObj)
    /\ last' = [op |-> "create_list", id |-> nextList, res |-> Some(nextList)]
    /\ UNCHANGED <<items, nextItem, ghost, retailVars, genVars, now, raceVars>>

\* the session after rows D of shopping_list_items are gone: their objects
\* leave the identity map but stay in every loaded collection that holds them
GhostAfter(D, newItems, sessMap) ==
    [i \in (((DOMAIN ghost) \cup D) \cap Referenced(sessMap)) \ DOMAIN newItems
        |-> ObjEst(i)]

\* the item rows that go with list l: those whose foreign key is l
\* (ForeignKey ondelete="CASCADE") and those the list object holds in its
\* loaded collection, which session.delete cascades to as they are
\* (relationship cascade="all, delete-orphan")
ItemsGoneWith(l) ==
    ItemsOf(l) \cup (IF l \in DOMAIN sess THEN sess[l].coll \cap DOMAIN items
                     ELSE {})

\* BaseRepository.delete on ShoppingList
DeleteList(l) ==
    IF l \notin DOMAIN lists
    THEN /\ last' = [op |-> "delete_list", id |-> l, res |-> FALSE]
         /\ UNCHANGED <<shopVars, retailVars, genVars, now, raceVars>>
    ELSE LET newItems == Without(items, ItemsGoneWith(l))
             newSess == Without(sess, {l})
         IN  /\ lists' = Without(lists, {l})
             /\ items' = newItems
             /\ sess' = newSess
             /\ ghost' = GhostAfter(ItemsGoneWith(l), newItems, newSess)
             /\ last' = [op |-> "delete_list", id |-> l, res |-> TRUE]
             /\ UNCHANGED <<nextList, nextItem, retailVars, genVars, now, raceVars>>

----------------------------------------------------------------------------
(* BaseRepository over ShoppingListItem *)

NewItem(l, ep, e, q) ==
    [ shopping_list_id         |-> l,
      estimated_unit_price     |-> ep,
      estimated_total_cost     |-> e,
      actual_purchase_quantity |-> q,
      purchase_status          |-> "not_purchased",
      actual_unit_price        |-> None,
      actual_total_cost        |-> None ]

\* BaseRepository.create: add, commit, refresh. No collection of the session
\* is touched: the foreign key column is set, not the relationship.
CreateItem(l, ep, e, q) ==
    /\ nextItem <= MaxItems
    /\ l \in DOMAIN lists
    /\ items' = With(items, nextItem, NewItem(l, ep, e, q))
    /\ nextItem' = nextItem + 1
    /\ last' = [op |-> "create_item", id |-> nextItem, res |-> Some(nextItem)]
    /\ UNCHANGED <<lists, nextList, sess, ghost, retailVars, genVars, now, raceVars>>

\* for field, value in obj_in.items(): if hasattr(db_obj, field): setattr(...)
ApplyFields(row, obj_in) ==
    [f \in DOMAIN row |-> IF f \in DOMAIN obj_in THEN obj_in[f] ELSE row[f]]

\* a miss answered with an empty result instead of absence
NotFound_ReturnsValue(op, id) == [op |-> op, id |-> id, res |-> Some(0)]

\* "if db_obj is None: return None": the call reports absence
NotFound(op, id) == [op |-> op, id |-> id, res |-> None]

\* BaseRepository.update
UpdateItem(i, obj_in) ==
    IF i \notin DOMAIN items
    THEN /\ last' = NotFound("update_item", i)
         /\ UNCHANGED <<shopVars, retailVars, genVars, now, raceVars>>
    ELSE /\ items' = [items EXCEPT ![i] = ApplyFields(items[i], obj_in)]
         /\ last' = [op |-> "update_item", id |-> i, res |-> Some(i)]
         /\ UNCHANGED <<lists, nextList, nextItem, sess, ghost, retailVars,
                        genVars, now, raceVars>>

\* BaseRepository.delete
DeleteItem(i) ==
    IF i \notin DOMAIN items
    THEN /\ last' = [op |-> "delete_item", id |-> i, res |-> FALSE]
         /\ UNCHANGED <<shopVars, retailVars, genVars, now, raceVars>>
    ELSE LET newItems == Without(items, {i})
         IN  /\ items' = newItems
             /\ ghost' = GhostAfter({i}, newItems, sess)
             /\ last' = [op |-> "delete_item", id |-> i, res |-> TRUE,
                         list |-> items[i].shopping_list_id]
             /\ UNCHANGED <<lists, nextList, nextItem, sess, retailVars,
                            genVars, now, raceVars>>

----------------------------------------------------------------------------
(* ShoppingListRepository *)

\* The session after the query of get_with_items for an existing row l.
\* A list the session does not hold is loaded with its items (selectinload)
\* and remembers the option; a held list whose collection is not loaded gets
\* it loaded; a held list whose collection is loaded keeps the collection it
\* has (an eager loader does not overwrite a loaded attribute of an object
\* already in the identity map, and expire_on_commit=False never expires it).
LoadWithItems(l) ==
    IF l \notin DOMAIN sess
    THEN With(sess, l, [opts |-> TRUE, loaded |-> TRUE, coll |-> ItemsOf(l)])
    ELSE IF ~sess[l].loaded
         THEN [sess EXCEPT ![l].loaded = TRUE, ![l].coll = ItemsOf(l)]
         ELSE sess

\* ShoppingListRepository.get_with_items
GetWithItems(l) ==
    IF l \notin DOMAIN lists
    THEN /\ last' = NotFound("get_with_items", l)
         /\ UNCHANGED <<shopVars, retailVars, genVars, now, raceVars>>
    ELSE /\ sess' = LoadWithItems(l)
         /\ last' = [op |-> "get_with_items", id |-> l,
                     res |-> Some(lists[l].total_estimated_cost),
                     items |-> LoadWithItems(l)[l].coll]
         /\ UNCHANGED <<lists, items, nextList, nextItem, ghost, retailVars,
                        genVars, now, raceVars>>

\* total = sum(item.estimated_total_cost or Decimal("0.00")
\*             for item in shopping_list.items)
RecalcSum(coll) == SumCosts(coll)

\* db.refresh(shopping_list): every attribute is expired and the columns are
\* read again; the items collection is loaded again only when the object
\* carries the selectinload option it was first loaded with
Refreshed(obj, l) ==
    IF obj.opts
    THEN [obj EXCEPT !.loaded = TRUE, !.coll = ItemsOf(l)]
    ELSE [obj EXCEPT !.loaded = FALSE, !.coll = {}]

\* ShoppingListRepository.recalculate_total
RecalculateTotal(l) ==
    IF l \notin DOMAIN lists
    THEN /\ last' = NotFound("recalculate_total", l)
         /\ UNCHANGED <<shopVars, retailVars, genVars, now, raceVars>>
    ELSE LET loadedSess == LoadWithItems(l)
             total == RecalcSum(loadedSess[l].coll)
             newSess == [loadedSess EXCEPT ![l] = Refreshed(loadedSess[l], l)]
         IN  /\ lists' = [lists EXCEPT ![l].total_estimated_cost = total]
             /\ sess' = newSess
             /\ ghost' = PruneGhost(newSess)
             /\ last' = [op |-> "recalculate_total", id |-> l, res |-> Some(total)]
             /\ UNCHANGED <<items, nextList, nextItem, retailVars, genVars, now, raceVars>>

\* The caller drops its reference to the list object (or the request ends and
\* get_async_db closes the session): the identity map holds objects weakly,
\* so the next call loads the list anew.
Release(l) ==
    /\ l \in DOMAIN sess
    /\ sess' = Without(sess, {l})
    /\ ghost' = PruneGhost(Without(sess, {l}))
    /\ last' = [op |-> "release", id |-> l, res |-> None]
    /\ UNCHANGED <<lists, items, nextList, nextItem, retailVars, genVars, now, raceVars>>

----------------------------------------------------------------------------
(* ShoppingListItemRepository.mark_purchased *)

\* the column truncating toward zero instead of rounding
Numeric2_Truncate(x) ==
    IF x >= 0 THEN x \div 1000 ELSE 0 - ((0 - x) \div 1000)

\* A Decimal with five fractional digits (a 2-decimal price times a 3-decimal
\* quantity, x counted in 1/100000) as a Numeric(10, 2) column stores it:
\* rounded to cents, ties away from zero
Numeric2(x) ==
    IF x >= 0 THEN (x + 500) \div 1000 ELSE 0 - ((500 - x) \div 1000)

\* "if actual_quantity:" in place of "is not None": a supplied zero falls
\* back to the stored quantity
QuantityUsed_Truthy(row, actual_quantity) ==
    IF actual_quantity # None /\ Val(actual_quantity) # 0 THEN Val(actual_quantity)
    ELSE row.actual_purchase_quantity

\* if actual_quantity is not None: ... else: item.actual_purchase_quantity
QuantityUsed(row, actual_quantity) ==
    IF actual_quantity # None THEN Val(actual_quantity)
    ELSE row.actual_purchase_quantity

\* mark_purchased also recording the supplied quantity on the item
Purchased_StoresQuantity(row, actual_unit_price, actual_quantity) ==
    [row EXCEPT
        !.purchase_status = "purchased",
        !.actual_unit_price = Some(actual_unit_price),
        !.actual_purchase_quantity = QuantityUsed(row, actual_quantity),
        !.actual_total_cost =
            Some(Numeric2(actual_unit_price * QuantityUsed(row, actual_quantity)))]

\* the row after mark_purchased's three assignments, commit and refresh
Purchased(row, actual_unit_price, actual_quantity) ==
    [row EXCEPT
        !.purchase_status = "purchased",
        !.actual_unit_price = Some(actual_unit_price),
        !.actual_total_cost =
            Some(Numeric2(actual_unit_price * QuantityUsed(row, actual_quantity)))]

MarkPurchased(i, actual_unit_price, actual_quantity) ==
    IF i \notin DOMAIN items
    THEN /\ last' = NotFound("mark_purchased", i)
         /\ UNCHANGED <<shopVars, retailVars, genVars, now, raceVars>>
    ELSE /\ items' = [items EXCEPT
                        ![i] = Purchased(items[i], actual_unit_price, actual_quantity)]
         /\ last' = [op |-> "mark_purchased", id |-> i, res |-> Some(i),
                     price |-> actual_unit_price, qty |-> actual_quantity,
                     planned |-> items[i].actual_purchase_quantity]
         /\ UNCHANGED <<lists, nextList, nextItem, sess, ghost, retailVars,
                        genVars, now, raceVars>>

----------------------------------------------------------------------------
(* Shopping-list totals: lists, items, reads and recalculation in one session *)

Next ==
    \/ CreateList
    \/ \E l \in ListIds : DeleteList(l)
    \/ \E l \in ListIds, e \in EstVals, q \in QtyVals : CreateItem(l, None, e, q)
    \/ \E i \in ItemIds, e \in EstVals :
            UpdateItem(i, [estimated_total_cost |-> e])
    \/ \E i \in ItemIds, l \in DOMAIN lists :
            UpdateItem(i, [shopping_list_id |-> l])
    \/ \E i \in ItemIds : DeleteItem(i)
    \/ \E l \in ListIds : GetWithItems(l)
    \/ \E l \in ListIds : RecalculateTotal(l)
    \/ \E l \in ListIds : Release(l)

Spec == Init /\ [][Next]_vars

----------------------------------------------------------------------------
(* BaseRepository over RetailerPrice *)

\* last_updated has no default: the caller supplies it
CreatePrice(m, p, a, t) ==
    /\ nextPrice <= MaxPrices
    /\ prices' = With(prices, nextPrice,
                      [material_name |-> m, unit_price |-> p,
                       availability_status |-> a, last_updated |-> t])
    /\ nextPrice' = nextPrice + 1
    /\ last' = [op |-> "create_price", id |-> nextPrice, res |-> Some(nextPrice)]
    /\ UNCHANGED <<shopVars, genVars, now, raceVars>>

UpdatePrice(r, obj_in) ==
    IF r \notin DOMAIN prices
    THEN /\ last' = NotFound("update_price", r)
         /\ UNCHANGED <<shopVars, retailVars, genVars, now, raceVars>>
    ELSE /\ prices' = [prices EXCEPT ![r] = ApplyFields(prices[r], obj_in)]
         /\ last' = [op |-> "update_price", id |-> r, res |-> Some(r)]
         /\ UNCHANGED <<shopVars, nextPrice, genVars, now, raceVars>>

DeletePrice(r) ==
    IF r \notin DOMAIN prices
    THEN /\ last' = [op |-> "delete_price", id |-> r, res |-> FALSE]
         /\ UNCHANGED <<shopVars, retailVars, genVars, now, raceVars>>
    ELSE /\ prices' = Without(prices, {r})
         /\ last' = [op |-> "delete_price", id |-> r, res |-> TRUE]
         /\ UNCHANGED <<shopVars, nextPrice, genVars, now, raceVars>>

----------------------------------------------------------------------------
(* RetailerPriceRepository: cheapest, average, compare *)

\* the availability filter left out
Matches_IgnoresAvailability(row, material_name, availability_only) ==
    row.material_name = material_name

\* .where(RetailerPrice.material_name == material_name), and
\* if availability_only: .where(RetailerPrice.availability_status == "in_stock")
Matches(row, material_name, availability_only) ==
    /\ row.material_name = material_name
    /\ availability_only => row.availability_status = "in_stock"

Matching(material_name, availability_only) ==
    {r \in DOMAIN prices : Matches(prices[r], material_name, availability_only)}

\* .desc() in place of .asc()
InOrder_Desc(a, b) == a.unit_price >= b.unit_price

\* .order_by(RetailerPrice.unit_price.asc()): row a may come before row b
InOrder(a, b) == a.unit_price <= b.unit_price

\* the orders in which the store may return the rows S under the ORDER BY
\* (rows of equal price in any order)
Orderings(S) ==
    {s \in [1..Cardinality(S) -> S] :
        /\ \A j, k \in 1..Cardinality(S) : j # k => s[j] # s[k]
        /\ \A j, k \in 1..Cardinality(S) : j < k => InOrder(prices[s[j]], prices[s[k]])}

\* RetailerPriceRepository.get_cheapest_for_material: ORDER BY ... LIMIT 1,
\* scalar_one_or_none()
Cheapest(m, availability_only) ==
    /\ \E s \in Orderings(Matching(m, availability_only)) :
          last' = [op |-> "cheapest", m |-> m, flag |-> availability_only,
                   res |-> IF Len(s) = 0 THEN None ELSE Some(s[1])]
    /\ UNCHANGED <<shopVars, retailVars, genVars, now, raceVars>>

RECURSIVE SumPrices(_)
SumPrices(S) ==
    IF S = {} THEN 0
    ELSE LET x == CHOOSE y \in S : TRUE
         IN  prices[x].unit_price + SumPrices(S \ {x})

\* COALESCE(avg(unit_price), 0): zero over no rows
SqlAvg_Coalesced(S) ==
    Some([num |-> SumPrices(S), den |-> IF S = {} THEN 1 ELSE Cardinality(S)])

\* SELECT avg(unit_price): NULL over no rows, else the quotient of the sum and
\* the count, kept as the fraction [num / den]
SqlAvg(S) ==
    IF S = {} THEN None
    ELSE Some([num |-> SumPrices(S), den |-> Cardinality(S)])

\* "if avg_price" in place of "is not None": a mean of zero becomes absence
AvgReturn_Truthy(avg_price) ==
    IF avg_price # None /\ Val(avg_price).num # 0 THEN avg_price ELSE None

\* return float(avg_price) if avg_price is not None else None
AvgReturn(avg_price) == IF avg_price # None THEN avg_price ELSE None

\* RetailerPriceRepository.get_average_price_by_material
Average(m, availability_only) ==
    /\ last' = [op |-> "average", m |-> m, flag |-> availability_only,
                res |-> AvgReturn(SqlAvg(Matching(m, availability_only)))]
    /\ UNCHANGED <<shopVars, retailVars, genVars, now, raceVars>>

\* RetailerPriceRepository.compare_retailers
Compare(m, availability_only) ==
    /\ \E s \in Orderings(Matching(m, availability_only)) :
          last' = [op |-> "compare", m |-> m, flag |-> availability_only,
                   res |-> s]
    /\ UNCHANGED <<shopVars, retailVars, genVars, now, raceVars>>

NextRetail ==
    \/ \E in \in PriceInputs : CreatePrice(in[1], in[2], in[3], now)
    \/ \E r \in PriceIds, p \in UnitPrices : UpdatePrice(r, [unit_price |-> p])
    \/ \E r \in PriceIds : DeletePrice(r)
    \/ \E m \in Materials, f \in BOOLEAN : Cheapest(m, f)
    \/ \E m \in Materials, f \in BOOLEAN : Average(m, f)
    \/ \E m \in Materials, f \in BOOLEAN : Compare(m, f)

SpecRetail == Init /\ [][NextRetail]_vars

----------------------------------------------------------------------------
(* RetailerPriceRepository.get_stale_prices *)

\* a day passes
Tick ==
    /\ now < MaxClock
    /\ now' = now + 1
    /\ last' = [op |-> "tick"]
    /\ UNCHANGED <<shopVars, retailVars, genVars, raceVars>>

\* cutoff_date = datetime.utcnow() - timedelta(days=days_old)
Cutoff(days_old) == now - days_old

\* a row dated exactly at the cutoff counted as stale
IsStale_Inclusive(row, cutoff_date) == row.last_updated <= cutoff_date

\* .where(RetailerPrice.last_updated < cutoff_date)
IsStale(row, cutoff_date) == row.last_updated < cutoff_date

StaleRows(days_old) ==
    {r \in DOMAIN prices : IsStale(prices[r], Cutoff(days_old))}

\* RetailerPriceRepository.get_stale_prices: the query has no ORDER BY, the
\* result is kept as the set of rows the returned list holds
GetStalePrices(days_old) ==
    /\ last' = [op |-> "stale", days |-> days_old, res |-> StaleRows(days_old)]
    /\ UNCHANGED <<shopVars, retailVars, genVars, now, raceVars>>

NextStale ==
    \/ \E in \in StaleInputs, t \in 0..now :
            nextPrice <= MaxStalePrices /\ CreatePrice(in[1], 0, in[2], t)
    \/ \E r \in PriceIds : UpdatePrice(r, [last_updated |-> now])
    \/ \E r \in PriceIds : DeletePrice(r)
    \/ Tick
    \/ \E d \in DaysOld : GetStalePrices(d)

SpecStale == Init /\ [][NextStale]_vars

----------------------------------------------------------------------------
(* Purchase marking: items with planned quantities, purchases, recalculation *)

NextPurchase ==
    \/ nextList <= MaxPurchaseLists /\ CreateList
    \/ \E l \in ListIds : DeleteList(l)
    \/ \E l \in ListIds, q \in QtyVals : CreateItem(l, Some(100), Some(250), q)
    \/ \E i \in ItemIds : UpdateItem(i, [sku |-> "x"])
    \/ \E i \in ItemIds : DeleteItem(i)
    \/ \E i \in ItemIds, p \in PaidVals, q \in PaidQtyVals : MarkPurchased(i, p, q)
    \/ \E l \in ListIds : RecalculateTotal(l)

SpecPurchase == Init /\ [][NextPurchase]_vars

----------------------------------------------------------------------------
(* Concurrent sessions: each call reads in its own session, then commits *)

\* the row after the UPDATE of a flush: the statement names only the
\* attributes whose assigned value differs from the one the session loaded,
\* and the other columns keep what the store holds
Flushed(current, new, modified) ==
    [f \in DOMAIN current |-> IF f \in modified THEN new[f] ELSE current[f]]

\* the attributes of the list that recalculate_total's assignment changed
TotalModified(row, total) ==
    IF total # row.total_estimated_cost THEN {"total_estimated_cost"} ELSE {}

\* the attributes of the item that mark_purchased's assignments changed: the
\* product is compared as assigned, before the column rounds it
PurchaseModified(row, actual_unit_price, actual_quantity) ==
    (IF row.purchase_status # "purchased" THEN {"purchase_status"} ELSE {})
    \cup (IF row.actual_unit_price # Some(actual_unit_price)
          THEN {"actual_unit_price"} ELSE {})
    \cup (IF \/ row.actual_total_cost = None
             \/ Val(row.actual_total_cost) * 1000
                   # actual_unit_price * QuantityUsed(row, actual_quantity)
          THEN {"actual_total_cost"} ELSE {})

\* recalculate_total up to its commit: get_with_items in a session that holds
\* nothing yet, and the sum over the items read
BeginRecalculate(s, l) ==
    /\ txn[s] = Idle
    /\ IF l \notin DOMAIN lists
       THEN /\ last' = NotFound("recalculate_total", l)
            /\ UNCHANGED txn
       ELSE /\ txn' = [txn EXCEPT ![s] =
                          [pc |-> "recalculate_total", id |-> l,
                           new |-> [lists[l] EXCEPT !.total_estimated_cost =
                                                       RecalcSum(ItemsOf(l))],
                           modified |-> TotalModified(lists[l],
                                                      RecalcSum(ItemsOf(l)))]]
            /\ last' = [op |-> "begin", session |-> s, id |-> l]
    /\ UNCHANGED <<shopVars, retailVars, genVars, now, done>>

\* recalculate_total from its commit on: the flush, the commit and the
\* refresh; the UPDATE of a row that is gone raises
CommitRecalculate(s) ==
    /\ txn[s].pc = "recalculate_total"
    /\ txn' = [txn EXCEPT ![s] = Idle]
    /\ LET l == txn[s].id IN
       IF l \notin DOMAIN lists
       THEN /\ last' = [op |-> "recalculate_total_commit", session |-> s,
                        id |-> l, res |-> None, err |-> Some("StaleDataError")]
            /\ UNCHANGED <<shopVars, done>>
       ELSE LET row == Flushed(lists[l], txn[s].new, txn[s].modified) IN
            /\ lists' = [lists EXCEPT ![l] = row]
            /\ done' = [done EXCEPT
                          !.total[l] = Some(txn[s].new.total_estimated_cost)]
            /\ last' = [op |-> "recalculate_total_commit", session |-> s,
                        id |-> l, res |-> Some(row.total_estimated_cost),
                        err |-> None]
            /\ UNCHANGED <<items, nextList, nextItem, sess, ghost>>
    /\ UNCHANGED <<retailVars, genVars, now>>

\* mark_purchased up to its commit: get, and the three assignments
BeginMarkPurchased(s, i, actual_unit_price, actual_quantity) ==
    /\ txn[s] = Idle
    /\ IF i \notin DOMAIN items
       THEN /\ last' = NotFound("mark_purchased", i)
            /\ UNCHANGED txn
       ELSE /\ txn' = [txn EXCEPT ![s] =
                          [pc |-> "mark_purchased", id |-> i,
                           new |-> Purchased(items[i], actual_unit_price,
                                             actual_quantity),
                           modified |-> PurchaseModified(items[i],
                                                         actual_unit_price,
                                                         actual_quantity)]]
            /\ last' = [op |-> "begin", session |-> s, id |-> i]
    /\ UNCHANGED <<shopVars, retailVars, genVars, now, done>>

\* mark_purchased from its commit on
CommitMarkPurchased(s) ==
    /\ txn[s].pc = "mark_purchased"
    /\ txn' = [txn EXCEPT ![s] = Idle]
    /\ LET i == txn[s].id IN
       IF i \notin DOMAIN items
       THEN /\ last' = [op |-> "mark_purchased_commit", session |-> s,
                        id |-> i, res |-> None, err |-> Some("StaleDataError")]
            /\ UNCHANGED <<shopVars, done>>
       ELSE /\ items' = [items EXCEPT
                           ![i] = Flushed(items[i], txn[s].new, txn[s].modified)]
            /\ done' = [done EXCEPT
                          !.pairs[i] = @ \cup {<<txn[s].new.actual_unit_price,
                                                txn[s].new.actual_total_cost>>}]
            /\ last' = [op |-> "mark_purchased_commit", session |-> s,
                        id |-> i, res |-> Some(i), err |-> None]
            /\ UNCHANGED <<lists, nextList, nextItem, sess, ghost>>
    /\ UNCHANGED <<retailVars, genVars, now>>

\* one list whose items other sessions write while two sessions recalculate
NextRecalcRace ==
    \/ nextList <= MaxPurchaseLists /\ CreateList
    \/ \E l \in DOMAIN lists, e \in EstVals, q \in QtyVals :
          nextItem <= MaxRaceItems /\ CreateItem(l, None, e, q)
    \/ \E i \in DOMAIN items, e \in EstVals :
          UpdateItem(i, [estimated_total_cost |-> e])
    \/ \E i \in DOMAIN items : DeleteItem(i)
    \/ \E i \in DOMAIN items : MarkPurchased(i, 333, None)
    \/ \E s \in Sessions, l \in ListIds : BeginRecalculate(s, l)
    \/ \E s \in Sessions : CommitRecalculate(s)

SpecRecalcRace == Init /\ [][NextRecalcRace]_vars

\* one item that two sessions mark purchased while its quantity is updated
NextPurchaseRace ==
    \/ DOMAIN lists = {} /\ CreateList
    \/ \E l \in DOMAIN lists, q \in QtyVals :
          DOMAIN items = {} /\ CreateItem(l, Some(100), Some(250), q)
    \/ \E i \in DOMAIN items, q \in QtyVals \cup {0} :
          UpdateItem(i, [actual_purchase_quantity |-> q])
    \/ \E s \in Sessions, i \in ItemIds, p \in PaidVals, q \in PaidQtyVals :
          BeginMarkPurchased(s, i, p, q)
    \/ \E s \in Sessions : CommitMarkPurchased(s)

SpecPurchaseRace == Init /\ [][NextPurchaseRace]_vars

----------------------------------------------------------------------------

(* The schema: every table of models/ by its keys and the columns modelled *)

Models == {"UserProfile", "Subscription", "Project", "ProjectPhoto",
           "ShoppingList", "ShoppingListItem", "ProjectPhase",
           "ProjectFeedback", "RetailerPrice"}

\* ForeignKey("<parent>.id", ondelete="CASCADE"): <<column, parent model>>
ForeignKeys(T) ==
    CASE T = "Subscription"     -> {<<"user_id", "UserProfile">>}
      [] T = "Project"          -> {<<"user_id", "UserProfile">>}
      [] T = "ProjectPhoto"     -> {<<"project_id", "Project">>}
      [] T = "ShoppingList"     -> {<<"project_id", "Project">>}
      [] T = "ShoppingListItem" -> {<<"shopping_list_id", "ShoppingList">>}
      [] T = "ProjectPhase"     -> {<<"project_id", "Project">>}
      [] T = "ProjectFeedback"  -> {<<"project_id", "Project">>,
                                    <<"user_id", "UserProfile">>}
      [] OTHER                  -> {}

\* Subscription with no unique constraint on user_id
UniqueColumns_None(T) == IF T = "ShoppingList" THEN {"project_id"} ELSE {}

\* unique=True
UniqueColumns(T) ==
    CASE T = "Subscription" -> {"user_id"}
      [] T = "ShoppingList" -> {"project_id"}
      [] OTHER              -> {}

\* unique=True on a nullable column: NULLs do not collide
UniqueNullable(T) ==
    IF T = "Subscription" THEN {"stripe_subscription_id"} ELSE {}

\* nullable=False columns without a default: a create must supply them
Required(T) ==
    CASE T = "UserProfile"   -> {"skill_level"}
      [] T = "Subscription"  -> {"user_id", "stripe_customer_id", "tier",
                                 "status"}
      [] T = "RetailerPrice" -> {"material_name", "retailer_name",
                                 "unit_price", "last_updated"}
      [] OTHER               -> {fk[1] : fk \in ForeignKeys(T)}

\* default=... of the columns that have one; a nullable column without a
\* default is NULL when omitted
Defaults(T) ==
    CASE T = "UserProfile"      -> << >>
      [] T = "Subscription"     -> [stripe_subscription_id |-> None,
                                    current_period_end |-> None,
                                    cancel_at_period_end |-> FALSE]
      [] T = "Project"          -> [status |-> "draft"]
      [] T = "ProjectPhoto"     -> [scan_status |-> "pending"]
      [] T = "ShoppingList"     -> [total_estimated_cost |-> DefaultTotal]
      [] T = "ShoppingListItem" -> [purchase_status |-> "not_purchased"]
      [] T = "ProjectPhase"     -> [status |-> "not_started"]
      [] T = "ProjectFeedback"  -> [use_for_training |-> TRUE, rating |-> None]
      [] T = "RetailerPrice"    -> [availability_status |-> "unknown"]

\* TimestampMixin: created_at and updated_at
Timestamps(T) ==
    IF T \in {"ProjectPhoto", "RetailerPrice"} THEN {}
    ELSE {"created_at", "updated_at"}

\* the columns of a row besides the primary key id (UUIDMixin)
Columns(T) == Required(T) \cup DOMAIN Defaults(T) \cup Timestamps(T)

\* tables created without their checks
Enums_None(T) == << >>

\* CheckConstraint("<column> IN (...)") and, for the rating,
\* CheckConstraint("rating >= 1 AND rating <= 5"), which NULL passes: the
\* values each checked column accepts
Enums(T) ==
    CASE T = "UserProfile"      ->
            [skill_level |-> {"beginner", "intermediate", "expert"}]
      [] T = "Subscription"     ->
            [tier   |-> {"free", "pro", "business"},
             status |-> {"active", "canceled", "past_due", "trialing"}]
      [] T = "Project"          ->
            [status |-> {"draft", "in_progress", "completed"}]
      [] T = "ProjectPhoto"     ->
            [scan_status |-> {"pending", "clean", "quarantined"}]
      [] T = "ShoppingListItem" ->
            [purchase_status |-> {"not_purchased", "purchased"}]
      [] T = "ProjectPhase"     ->
            [status |-> {"not_started", "in_progress", "completed", "blocked"}]
      [] T = "ProjectFeedback"  ->
            [rating |-> {None} \cup {Some(n) : n \in 1..5}]
      [] T = "RetailerPrice"    -> [availability_status |-> Availability,
                                    retailer_name |-> Retailers]
      [] OTHER                  -> << >>

\* the rows of table T
Table(T) == {k \in DOMAIN store : k[1] = T}

\* the ids of the rows of table T
Ids(T) == {k[2] : k \in Table(T)}

\* rows whose foreign key refers to row k
Refs(k) ==
    {c \in DOMAIN store :
        \E fk \in ForeignKeys(c[1]) : fk[2] = k[1] /\ store[c][fk[1]] = k[2]}

\* foreign keys never checked
FkResolves_Unchecked(st, T, row) == TRUE

\* every foreign key of the row refers to a row of st
FkResolves(st, T, row) ==
    \A fk \in ForeignKeys(T) : <<fk[2], row[fk[1]]>> \in DOMAIN st

\* what the storage layer accepts for a row of T with key id, the other rows
\* being those of st: foreign keys, unique columns, checks
Accepts(st, T, id, row) ==
    /\ FkResolves(st, T, row)
    /\ \A u \in UniqueColumns(T) :
          \A k \in DOMAIN st : (k[1] = T /\ k[2] # id) => st[k][u] # row[u]
    /\ \A u \in UniqueNullable(T) :
          row[u] # None =>
              \A k \in DOMAIN st : (k[1] = T /\ k[2] # id) => st[k][u] # row[u]
    /\ \A c \in DOMAIN Enums(T) : row[c] \in Enums(T)[c]

----------------------------------------------------------------------------
(* BaseRepository, for any model T *)

\* the call op(id, arg) on the repository of T returned res
Returned(op, T, id, arg, res) ==
    [op |-> op, model |-> T, id |-> id, arg |-> arg, res |-> res, err |-> None]

\* the call raised exc: nothing is returned
Raised(op, T, id, arg, exc) ==
    [op |-> op, model |-> T, id |-> id, arg |-> arg, res |-> None,
     err |-> Some(exc)]

\* a generator that hands out the same id again
NewId_Fixed(obj_in) == IF "id" \in DOMAIN obj_in THEN obj_in.id ELSE 1

\* default=uuid4 unless the caller supplies the id
NewId(obj_in) == IF "id" \in DOMAIN obj_in THEN obj_in.id ELSE nextId

\* self.model(**obj_in) as the INSERT stores it: the supplied values, the
\* column defaults (the timestamps read the clock) and NULL for the rest
NewRow(T, obj_in) ==
    [c \in Columns(T) |->
        IF c \in DOMAIN obj_in THEN obj_in[c]
        ELSE IF c \in Timestamps(T) THEN now
        ELSE Defaults(T)[c]]

\* BaseRepository.create. The constructor rejects a keyword that is no
\* attribute of the model; the commit fails on a missing NOT NULL value, a
\* duplicate primary key, an unresolved foreign key, a duplicate unique value
\* or a failed check, and the failed commit rolls the session back, which
\* expires every object it holds.
Create(T, obj_in) ==
    /\ nextId <= MaxIds
    /\ UNCHANGED <<shopVars, retailVars, raceVars, now>>
    /\ IF ~(DOMAIN obj_in \subseteq (Columns(T) \cup {"id"}))
       THEN /\ last' = Raised("create", T, NewId(obj_in), obj_in, "TypeError")
            /\ UNCHANGED <<store, nextId, held>>
       ELSE IF \/ ~(Required(T) \subseteq DOMAIN obj_in)
               \/ <<T, NewId(obj_in)>> \in DOMAIN store
               \/ ~Accepts(store, T, NewId(obj_in), NewRow(T, obj_in))
            THEN /\ last' = Raised("create", T, NewId(obj_in), obj_in, "IntegrityError")
                 /\ held' = << >>
                 /\ UNCHANGED <<store, nextId>>
            ELSE /\ store' = With(store, <<T, NewId(obj_in)>>, NewRow(T, obj_in))
                 /\ nextId' = IF "id" \in DOMAIN obj_in THEN nextId ELSE nextId + 1
                 /\ last' = Returned("create", T, NewId(obj_in), obj_in,
                                     Some(NewRow(T, obj_in)))
                 /\ UNCHANGED held

\* a delete that found nothing reporting success
Absent_True(op) == IF op \in {"delete", "exists"} THEN TRUE ELSE None

\* what a call answers when the id has no row: "return None" of get and
\* update, "return False" of delete, "result is not None" of exists
Absent(op) == IF op \in {"delete", "exists"} THEN FALSE ELSE None

\* the projects of user u
ProjectsOf(u) == {k[2] : k \in {c \in Table("Project") : store[c].user_id = u}}

\* onupdate of updated_at left out
Touched_Never(T, old, new, obj_in) == new

\* onupdate=lambda: datetime.now(timezone.utc): an UPDATE that changes a
\* column and does not set updated_at itself stamps it
Touched(T, old, new, obj_in) ==
    IF new # old /\ "updated_at" \in Timestamps(T) \ DOMAIN obj_in
    THEN [new EXCEPT !.updated_at = now]
    ELSE new

\* BaseRepository.update: get, setattr for every key the object has, commit,
\* refresh. A refreshed UserProfile loads its projects again.
Update(T, id, obj_in) ==
    /\ UNCHANGED <<shopVars, retailVars, raceVars, now, nextId>>
    /\ IF <<T, id>> \notin DOMAIN store
       THEN /\ last' = Returned("update", T, id, obj_in, Absent("update"))
            /\ UNCHANGED <<store, held>>
       ELSE LET old == store[<<T, id>>]
                new == Touched(T, old, ApplyFields(old, obj_in), obj_in)
            IN  IF ~Accepts(store, T, id, new)
                THEN /\ last' = Raised("update", T, id, obj_in, "IntegrityError")
                     /\ held' = << >>
                     /\ UNCHANGED store
                ELSE /\ store' = [store EXCEPT ![<<T, id>>] = new]
                     /\ held' = IF T = "UserProfile" /\ id \in DOMAIN held
                                THEN [held EXCEPT ![id] = ProjectsOf(id)]
                                ELSE held
                     /\ last' = Returned("update", T, id, obj_in, Some(new))

\* the project objects a held UserProfile carries in its loaded collection
Loaded(k) ==
    IF k[1] = "UserProfile" /\ k[2] \in DOMAIN held
    THEN {<<"Project", p>> : p \in held[k[2]]} \cap DOMAIN store
    ELSE {}

\* the rows that referencing alone removes with S (ondelete="CASCADE")
RECURSIVE CascadeOf(_)
CascadeOf(S) ==
    LET more == S \cup UNION {Refs(k) : k \in S}
    IN  IF more = S THEN S ELSE CascadeOf(more)

\* the rows a delete of S removes: session.delete cascades over the
\* relationships (cascade="all, delete-orphan"), reading a loaded collection
\* as it is and loading an unloaded one, and the storage cascades over the
\* foreign keys
RECURSIVE Doomed(_)
Doomed(S) ==
    LET more == S \cup UNION {Refs(k) \cup Loaded(k) : k \in S}
    IN  IF more = S THEN S ELSE Doomed(more)

\* BaseRepository.delete
Delete(T, id) ==
    /\ UNCHANGED <<shopVars, retailVars, raceVars, now, nextId>>
    /\ IF <<T, id>> \notin DOMAIN store
       THEN /\ last' = Returned("delete", T, id, << >>, Absent("delete"))
            /\ UNCHANGED <<store, held>>
       ELSE LET st == Without(store, Doomed({<<T, id>>}))
            IN  /\ store' = st
                /\ held' = [u \in {h \in DOMAIN held :
                                      <<"UserProfile", h>> \in DOMAIN st} |->
                              {p \in held[u] : <<"Project", p>> \in DOMAIN st}]
                /\ last' = Returned("delete", T, id, << >>, TRUE)

\* BaseRepository.get
Get(T, id) ==
    /\ last' = Returned("get", T, id, << >>,
                        IF <<T, id>> \in DOMAIN store
                        THEN Some(store[<<T, id>>]) ELSE Absent("get"))
    /\ UNCHANGED <<shopVars, retailVars, genVars, now, raceVars>>

\* BaseRepository.exists
Exists(T, id) ==
    /\ last' = Returned("exists", T, id, << >>,
                        IF <<T, id>> \in DOMAIN store THEN TRUE
                        ELSE Absent("exists"))
    /\ UNCHANGED <<shopVars, retailVars, genVars, now, raceVars>>

\* the rows of S in the order the store returns them: the queries of the
\* repositories carry no ORDER BY, so any order
AnyOrder(S) ==
    {s \in [1..Cardinality(S) -> S] :
        \A j, k \in 1..Cardinality(S) : j # k => s[j] # s[k]}

\* .offset(skip).limit(limit)
Page(s, skip, limit) ==
    SubSeq(s, skip + 1, IF skip + limit < Len(s) THEN skip + limit ELSE Len(s))

\* hasattr(self.model, field): the key names a column of the model
HasAttr(T, field) == field \in Columns(T) \cup {"id"}

\* getattr(self.model, field) of the row with key k
Attr(k, field) == IF field = "id" THEN k[2] ELSE store[k][field]

\* for field, value in filters.items():
\*     if hasattr(self.model, field): query.where(column == value)
Filtered(T, filters) ==
    {k \in Table(T) :
        \A field \in DOMAIN filters :
            HasAttr(T, field) => Attr(k, field) = filters[field]}

\* BaseRepository.get_multi
GetMulti(T, skip, limit, filters) ==
    /\ \E s \in AnyOrder(Filtered(T, filters)) :
          last' = [op |-> "get_multi", model |-> T, skip |-> skip,
                   limit |-> limit, arg |-> filters,
                   res |-> Page(s, skip, limit)]
    /\ UNCHANGED <<shopVars, retailVars, genVars, now, raceVars>>

\* a count that leaves the filters out
Counted_Unfiltered(T, filters) == Cardinality(Table(T))

\* select(func.count()).select_from(self.model) under the same filters
Counted(T, filters) == Cardinality(Filtered(T, filters))

\* BaseRepository.count
Count(T, filters) ==
    /\ last' = [op |-> "count", model |-> T, arg |-> filters,
                res |-> Counted(T, filters)]
    /\ UNCHANGED <<shopVars, retailVars, genVars, now, raceVars>>

\* UserRepository.get_with_projects, the caller keeping the object: a user
\* the session does not hold is loaded with its projects; a held one keeps
\* the collection it has
GetWithProjects(u) ==
    /\ UNCHANGED <<shopVars, retailVars, raceVars, now, store, nextId>>
    /\ IF <<"UserProfile", u>> \notin DOMAIN store
       THEN /\ last' = Returned("get_with_projects", "UserProfile", u, << >>, None)
            /\ UNCHANGED held
       ELSE /\ held' = IF u \in DOMAIN held THEN held
                       ELSE With(held, u, ProjectsOf(u))
            /\ last' = Returned("get_with_projects", "UserProfile", u, << >>,
                                Some(store[<<"UserProfile", u>>]))

\* the caller drops the user object: the identity map holds it weakly
ReleaseUser(u) ==
    /\ u \in DOMAIN held
    /\ held' = Without(held, {u})
    /\ last' = [op |-> "release_user", id |-> u]
    /\ UNCHANGED <<shopVars, retailVars, raceVars, now, store, nextId>>

----------------------------------------------------------------------------
(* SubscriptionRepository *)

\* the period end compared with < in place of <=
IsExpiring_Strict(row, before) ==
    /\ row.status = "active"
    /\ row.current_period_end # None
    /\ Val(row.current_period_end) < before

\* .where(Subscription.status == "active",
\*        Subscription.current_period_end <= before): a NULL period end
\* compares as unknown and the row is left out
IsExpiring(row, before) ==
    /\ row.status = "active"
    /\ row.current_period_end # None
    /\ Val(row.current_period_end) <= before

Expiring(before) ==
    {k \in Table("Subscription") : IsExpiring(store[k], before)}

\* SubscriptionRepository.get_expiring_soon
GetExpiringSoon(before, skip, limit) ==
    /\ \E s \in AnyOrder(Expiring(before)) :
          last' = [op |-> "expiring_soon", before |-> before, skip |-> skip,
                   limit |-> limit, res |-> Page(s, skip, limit)]
    /\ UNCHANGED <<shopVars, retailVars, genVars, now, raceVars>>

(* SubscriptionRepository: lookups by user and by Stripe ids *)

\* result.scalar_one_or_none() over the rows S the query selects
ScalarOneOrNone(S) ==
    IF S = {} THEN [res |-> None, err |-> None]
    ELSE IF Cardinality(S) = 1
         THEN [res |-> Some(CHOOSE k \in S : TRUE), err |-> None]
         ELSE [res |-> None, err |-> Some("MultipleResultsFound")]

Lookup(op, arg, S) ==
    /\ last' = [op |-> op, arg |-> arg, res |-> ScalarOneOrNone(S).res,
                err |-> ScalarOneOrNone(S).err]
    /\ UNCHANGED <<shopVars, retailVars, genVars, now, raceVars>>

\* SubscriptionRepository.get_by_user_id
GetByUserId(user_id) ==
    Lookup("get_by_user_id", user_id,
           {k \in Table("Subscription") : store[k].user_id = user_id})

\* SubscriptionRepository.get_by_stripe_subscription_id: a NULL column
\* matches no value
GetByStripeSubscriptionId(stripe_subscription_id) ==
    Lookup("get_by_stripe_subscription_id", stripe_subscription_id,
           {k \in Table("Subscription") :
               store[k].stripe_subscription_id = Some(stripe_subscription_id)})

\* SubscriptionRepository.get_by_stripe_customer_id
GetByStripeCustomerId(stripe_customer_id) ==
    Lookup("get_by_stripe_customer_id", stripe_customer_id,
           {k \in Table("Subscription") :
               store[k].stripe_customer_id = stripe_customer_id})

(* Subscriptions and their Stripe ids: webhooks looking subscriptions up *)
NextLookups ==
    \/ nextId <= MaxLookupIds /\ Create("UserProfile", [skill_level |-> "beginner"])
    \/ \E u \in Ids("UserProfile"), c \in Customers,
          x \in {None} \cup {Some(y) : y \in StripeSubscriptions} :
          nextId <= MaxLookupIds
              /\ Create("Subscription",
                        [user_id |-> u, stripe_customer_id |-> c,
                         stripe_subscription_id |-> x,
                         tier |-> "free", status |-> "active"])
    \/ \E k \in Table("Subscription"), c \in Customers :
          Update("Subscription", k[2], [stripe_customer_id |-> c])
    \/ \E k \in Table("Subscription") : Delete("Subscription", k[2])
    \/ \E u \in 1..MaxLookupIds : GetByUserId(u)
    \/ \E x \in StripeSubscriptions : GetByStripeSubscriptionId(x)
    \/ \E c \in Customers : GetByStripeCustomerId(c)

SpecLookups == Init /\ [][NextLookups]_vars

----------------------------------------------------------------------------

(* Subscriptions and their users: one subscription per user *)
NextSubs ==
    \/ Create("UserProfile", [skill_level |-> "beginner"])
    \/ \E u \in GenIds :
          Create("Subscription",
                 [user_id |-> u, stripe_customer_id |-> "cus_1", tier |-> "free", status |-> "active"])
    \/ \E i \in GenIds, u \in GenIds : Update("Subscription", i, [user_id |-> u])
    \/ \E i \in GenIds : Delete("Subscription", i)
    \/ \E i \in GenIds : Delete("UserProfile", i)

SpecSubs == Init /\ [][NextSubs]_vars

(* Subscriptions by status and period end: renewal reminders *)
NextExpiring ==
    \/ Create("UserProfile", [skill_level |-> "beginner"])
    \/ \E u \in GenIds, in \in SubInputs :
          Create("Subscription",
                 [user_id |-> u, stripe_customer_id |-> "cus_1", tier |-> "free", status |-> in[1],
                  current_period_end |-> in[2]])
    \/ \E i \in GenIds : Update("Subscription", i, [status |-> "active"])
    \/ \E i \in GenIds :
          Update("Subscription", i, [current_period_end |-> Some(MaxPeriodEnd)])
    \/ \E i \in GenIds : Delete("Subscription", i)
    \/ \E b \in Thresholds, skip \in 0..1, limit \in 1..MaxLimit :
          GetExpiringSoon(b, skip, limit)

SpecExpiring == Init /\ [][NextExpiring]_vars

----------------------------------------------------------------------------
\* a query that also asks for an active status
IsCanceling_ActiveOnly(row) == row.cancel_at_period_end /\ row.status = "active"

\* .where(Subscription.cancel_at_period_end)
IsCanceling(row) == row.cancel_at_period_end

Canceling == {k \in Table("Subscription") : IsCanceling(store[k])}

\* SubscriptionRepository.get_canceling_at_period_end
GetCancelingAtPeriodEnd(skip, limit) ==
    /\ \E s \in AnyOrder(Canceling) :
          last' = [op |-> "canceling", skip |-> skip, limit |-> limit,
                   res |-> Page(s, skip, limit)]
    /\ UNCHANGED <<shopVars, retailVars, genVars, now, raceVars>>

(* Subscriptions by cancellation flag: win-back campaigns *)
NextCanceling ==
    \/ Create("UserProfile", [skill_level |-> "beginner"])
    \/ \E u \in Ids("UserProfile"), in \in CancelInputs :
          Create("Subscription",
                 [user_id |-> u, stripe_customer_id |-> "cus_1", tier |-> "free", status |-> in[1],
                  current_period_end |-> in[2], cancel_at_period_end |-> in[3]])
    \/ \E u \in Ids("UserProfile") :
          Create("Subscription",
                 [user_id |-> u, stripe_customer_id |-> "cus_1", tier |-> "free", status |-> "active"])
    \/ \E k \in Table("Subscription"), flag \in BOOLEAN :
          Update("Subscription", k[2], [cancel_at_period_end |-> flag])
    \/ \E k \in Table("Subscription") :
          Update("Subscription", k[2], [status |-> "canceled"])
    \/ \E k \in Table("Subscription") : Delete("Subscription", k[2])
    \/ \E skip \in 0..1, limit \in 1..MaxLimit :
          GetCancelingAtPeriodEnd(skip, limit)

SpecCanceling == Init /\ [][NextCanceling]_vars

----------------------------------------------------------------------------

(* Retailer prices written again and again for the same combination *)

\* RetailerPriceRepository.search_by_material_and_retailer: get_multi with
\* the default skip and limit
SearchByMaterialAndRetailer(material_name, retailer_name) ==
    GetMulti("RetailerPrice", 0, 100,
             [material_name |-> material_name, retailer_name |-> retailer_name])

NextVersions ==
    \/ \E in \in VersionInputs :
          nextId <= MaxVersions
              /\ Create("RetailerPrice", With(in, "last_updated", now))
    \/ \E k \in Table("RetailerPrice"), p \in UnitPrices :
          Update("RetailerPrice", k[2], [unit_price |-> p])
    \/ \E k \in Table("RetailerPrice") : Delete("RetailerPrice", k[2])
    \/ \E r \in {"lowes", "home_depot"} :
          SearchByMaterialAndRetailer("paint", r)

SpecVersions == Init /\ [][NextVersions]_vars

----------------------------------------------------------------------------

(* Ownership: users, what they own, and deletion *)

OwnerModels == {"UserProfile", "Subscription", "Project", "ProjectPhoto"}

\* a create of T that names its parents
ChildInputs(T) ==
    CASE T = "UserProfile"     -> {[skill_level |-> "beginner"]}
      [] T = "Subscription"    ->
            {[user_id |-> u, stripe_customer_id |-> "cus_1", tier |-> "free", status |-> "active"] : u \in GenIds}
      [] T = "ProjectFeedback" ->
            {[project_id |-> p, user_id |-> u] : p \in GenIds, u \in GenIds}
      [] OTHER                 ->
            UNION {{[c \in {fk[1]} |-> p] : p \in GenIds} : fk \in ForeignKeys(T)}

\* a user's rows read, moved to another user and deleted in one session
NextOwner ==
    \/ \E T \in OwnerModels : \E in \in ChildInputs(T) : Create(T, in)
    \/ \E k \in Table("Project"), u \in GenIds :
          Update("Project", k[2], [user_id |-> u])
    \/ \E k \in DOMAIN store : Delete(k[1], k[2])
    \/ \E u \in GenIds : GetWithProjects(u)
    \/ \E u \in GenIds : ReleaseUser(u)

SpecOwner == Init /\ [][NextOwner]_vars

\* every table written with any parent named, in one session
NextKeys ==
    \/ \E T \in Models \ {"RetailerPrice"} : \E in \in ChildInputs(T) :
          Create(T, in)
    \/ \E k \in DOMAIN store : \E fk \in ForeignKeys(k[1]), p \in GenIds :
          Update(k[1], k[2], [c \in {fk[1]} |-> p])
    \/ \E k \in DOMAIN store : Delete(k[1], k[2])

SpecKeys == Init /\ [][NextKeys]_vars

----------------------------------------------------------------------------
(* Creation: every table, defaults taken or overridden, ids supplied or not *)

\* the maps create is given: the required columns, naming parents that
\* exist, and for some tables a value for a column that has a default
CreateInputs(T) ==
    CASE T = "UserProfile"     -> {[skill_level |-> "beginner"]}
      [] T = "Project"         ->
            {[user_id |-> u] : u \in Ids("UserProfile")} \cup
            {[user_id |-> u, status |-> "completed"] : u \in Ids("UserProfile")}
      [] T = "Subscription"    ->
            {[user_id |-> u, stripe_customer_id |-> "cus_1", tier |-> "free", status |-> "active"] :
                u \in Ids("UserProfile")} \cup
            {[user_id |-> u, stripe_customer_id |-> "cus_1", tier |-> "free", status |-> "active",
             cancel_at_period_end |-> TRUE] :
                u \in Ids("UserProfile")}
      [] T = "ProjectFeedback" ->
            {[project_id |-> p, user_id |-> u] :
                p \in Ids("Project"), u \in Ids("UserProfile")}
      [] T = "RetailerPrice"   ->
            {[material_name |-> "paint", retailer_name |-> "lowes",
              unit_price |-> 1, last_updated |-> now],
             [material_name |-> "paint", retailer_name |-> "lowes",
              unit_price |-> 1, last_updated |-> now,
              availability_status |-> "in_stock"],
             [material_name |-> "paint", retailer_name |-> "lowes",
              unit_price |-> 1]}
      [] OTHER                 ->
            UNION {{[c \in {fk[1]} |-> p] : p \in Ids(fk[2])} :
                       fk \in ForeignKeys(T)}

\* the tables with a column that has a default, and their parents
CreateModels == Models \ {"ProjectPhoto", "ProjectPhase"}

NextCreate ==
    \/ \E T \in CreateModels : \E in \in CreateInputs(T) : Create(T, in)
    \/ \E in \in CreateInputs("Project") :
          \E id \in CallerIds \cup Ids("Project") :
              Create("Project", With(in, "id", id))
    \/ \E k \in Table("Project") : Delete(k[1], k[2])

SpecCreate == Init /\ [][NextCreate]_vars

----------------------------------------------------------------------------
(* Value domains: checked columns written with values inside and outside *)

\* the tables with a checked column the repositories write, and their parents
DomainModels == Models \ {"ProjectPhoto", "ProjectPhase"}

\* the least a create of T must name, the parents being rows that exist
DomainInputs(T) ==
    CASE T = "UserProfile"     -> {[skill_level |-> "beginner"]}
      [] T = "Subscription"    ->
            {[user_id |-> u, stripe_customer_id |-> "cus_1", tier |-> "free", status |-> "active"] :
                u \in Ids("UserProfile")}
      [] T = "ProjectFeedback" ->
            {[project_id |-> p, user_id |-> u] :
                p \in Ids("Project"), u \in Ids("UserProfile")}
      [] T = "RetailerPrice"   ->
            {[material_name |-> "paint", retailer_name |-> "lowes",
              unit_price |-> 1, last_updated |-> now]}
      [] OTHER                 ->
            UNION {{[c \in {fk[1]} |-> p] : p \in Ids(fk[2])} :
                       fk \in ForeignKeys(T)}

\* one row of each table at a time: a check looks at the row alone
NextDomains ==
    \/ \E T \in DomainModels : \E in \in DomainInputs(T) :
          Table(T) = {} /\ Create(T, in)
    \/ \E T \in DomainModels : \E in \in DomainInputs(T) :
          \E c \in DomainColumns(T) : \E v \in DomainValues(T, c) :
              Table(T) = {} /\ Create(T, With(in, c, v))
    \/ \E k \in DOMAIN store : \E c \in DomainColumns(k[1]) :
          \E v \in DomainValues(k[1], c) :
              Update(k[1], k[2], [f \in {c} |-> v])
    \/ \E k \in Table("Project") \cup Table("Subscription") : Delete(k[1], k[2])

SpecDomains == Init /\ [][NextDomains]_vars

----------------------------------------------------------------------------

(* Paging: a caller reading a table page after page with get_multi *)

\* get_multi called by a caller that pages: what it got before is kept beside
\* the page returned
PageCall(T, skip, limit, filters, before) ==
    /\ \E s \in AnyOrder(Filtered(T, filters)) :
          last' = [op |-> "page", model |-> T, skip |-> skip,
                   limit |-> limit, arg |-> filters,
                   res |-> Page(s, skip, limit), before |-> before]
    /\ UNCHANGED <<shopVars, retailVars, genVars, now, raceVars>>

\* get_multi(skip=0, limit=k)
FirstPage(T, k, filters) == PageCall(T, 0, k, filters, << >>)

\* get_multi(skip=previous skip + k, limit=k), right after the previous page
NextPage ==
    /\ last.op = "page"
    /\ Len(last.res) = last.limit
    /\ PageCall(last.model, last.skip + last.limit, last.limit, last.arg,
                last.before \o last.res)

NextPages ==
    \/ \E level \in {"beginner", "expert"} :
          nextId <= MaxPageRows /\ Create("UserProfile", [skill_level |-> level])
    \/ \E i \in 1..MaxPageRows : Delete("UserProfile", i)
    \/ \E k \in 1..MaxLimit, filters \in {<< >>, [skill_level |-> "beginner"]} :
          FirstPage("UserProfile", k, filters)
    \/ NextPage

SpecPages == Init /\ [][NextPages]_vars

----------------------------------------------------------------------------

(* The generic contract: projects of users read and written as time passes *)

NextCrud ==
    \/ Table("UserProfile") = {} /\ nextId <= MaxCrudIds
          /\ Create("UserProfile", [skill_level |-> "beginner"])
    \/ \E in \in ProjectInputs : nextId <= MaxCrudIds /\ Create("Project", in)
    \/ \E i \in CrudIds, obj_in \in ProjectUpdates : Update("Project", i, obj_in)
    \/ \E i \in CrudIds : Delete("Project", i)
    \/ \E i \in CrudIds : Get("Project", i)
    \/ \E i \in CrudIds : Exists("Project", i)
    \/ \E skip \in 0..1, limit \in {1, MaxLimit}, filters \in ProjectFilters :
          GetMulti("Project", skip, limit, filters)
    \/ \E filters \in ProjectFilters : Count("Project", filters)
    \/ now < MaxCrudClock /\ Tick

SpecCrud == Init /\ [][NextCrud]_vars

----------------------------------------------------------------------------
(* Claims on shopping-list totals *)

\* the sum of estimated_total_cost over the rows of list l, null as 0.00
CurrentSum(l) == SumCosts(ItemsOf(l))

\* C1: recalculate_total(L) stores and returns the sum of estimated_total_cost
\* over exactly L's current items, a null cost counting 0.00, whatever the
\* session did before.
C1_RecalculateStoresCurrentSum ==
    (last.op = "recalculate_total" /\ last.res # None) =>
        /\ lists[last.id].total_estimated_cost = CurrentSum(last.id)
        /\ Val(last.res) = CurrentSum(last.id)

\* C2: after an item create, update or delete through the item repository the
\* owning list's total equals the sum of its items' costs.
C2_TotalFollowsItemMutation ==
    /\ (last.op \in {"create_item", "update_item"} /\ last.res # None) =>
            lists[items[last.id].shopping_list_id].total_estimated_cost
                = CurrentSum(items[last.id].shopping_list_id)
    /\ (last.op = "delete_item" /\ last.res = TRUE) =>
            lists[last.list].total_estimated_cost = CurrentSum(last.list)

\* C3: a recalculate_total(L) that directly follows a recalculate_total(L),
\* with no write in between, yields the same total and changes no item and
\* no other list.
C3_RecalculateIdempotent ==
    [][ ( /\ last.op = "recalculate_total"
          /\ last.res # None
          /\ last'.op = "recalculate_total"
          /\ last'.id = last.id )
        => (lists' = lists /\ items' = items /\ last'.res = last.res) ]_vars

----------------------------------------------------------------------------
(* Claims on mark_purchased *)

\* the state right after a mark_purchased call that found its item
JustPurchased == last.op = "mark_purchased" /\ last.res # None

\* the quantity the claim names: the supplied one, else the stored one
ClaimedQty == IF last.qty # None THEN Val(last.qty) ELSE last.planned

\* C4 as stated: status purchased, actual_unit_price = price, and
\* actual_total_cost = price x qty exactly (costs in cents, the product of
\* cents and thousandths in 1/100000).
C4_TotalIsExactProduct ==
    JustPurchased =>
        /\ items[last.id].purchase_status = "purchased"
        /\ items[last.id].actual_unit_price = Some(last.price)
        /\ Val(items[last.id].actual_total_cost) * 1000 = last.price * ClaimedQty

\* C4 amended: status purchased, actual_unit_price = price, and
\* actual_total_cost is price x qty as the 2-decimal column holds it, with qty
\* the supplied quantity whenever one is supplied (zero included) and the
\* stored actual_purchase_quantity only when it is omitted.
C4_TotalIsStoredProduct ==
    JustPurchased =>
        /\ items[last.id].purchase_status = "purchased"
        /\ items[last.id].actual_unit_price = Some(last.price)
        /\ items[last.id].actual_total_cost
              = Some(Numeric2(last.price * ClaimedQty))

C4_Witness ==
    /\ JustPurchased
    /\ last.qty = Some(0)
    /\ last.planned # 0
    /\ items[last.id].actual_total_cost = Some(0)

\* C5 as stated: the persisted actual_total_cost equals price x quantity with
\* no rounding or truncation loss.
C5_NoRoundingLoss ==
    JustPurchased =>
        Val(items[last.id].actual_total_cost) * 1000 = last.price * ClaimedQty

\* C5 amended: the persisted actual_total_cost is price x quantity rounded to
\* whole cents, ties away from zero: it differs from the product by at most
\* half a cent, a tie goes up, and it is exact when the product has no more
\* than two fractional digits.
C5_RoundedToCents ==
    JustPurchased =>
        LET exact == last.price * ClaimedQty
            stored == Val(items[last.id].actual_total_cost) * 1000
            Abs(x) == IF x >= 0 THEN x ELSE 0 - x
        IN  /\ Abs(stored - exact) <= 500
            /\ (Abs(stored - exact) = 500) => (Abs(stored) > Abs(exact))
            /\ (exact % 1000 = 0) => (stored = exact)

C5_Witness ==
    /\ JustPurchased
    /\ (last.price * ClaimedQty) % 1000 = 500
    /\ last.price < 0
    /\ Val(items[last.id].actual_total_cost) * 1000 < last.price * ClaimedQty

\* C6: mark_purchased changes only the target item's purchase_status,
\* actual_unit_price and actual_total_cost: every list (its total included),
\* the item's list, estimated price and cost and its actual_purchase_quantity,
\* and every other item stay as they were.
C6_PurchaseFrame ==
    [][ (last'.op = "mark_purchased" /\ last'.res # None) =>
          /\ lists' = lists
          /\ DOMAIN items' = DOMAIN items
          /\ \A j \in DOMAIN items : j # last'.id => items'[j] = items[j]
          /\ \A f \in {"shopping_list_id", "estimated_unit_price",
                        "estimated_total_cost", "actual_purchase_quantity"} :
                items'[last'.id][f] = items[last'.id][f] ]_vars

C6_Witness ==
    /\ JustPurchased
    /\ last.qty # None
    /\ Val(last.qty) # last.planned
    /\ items[last.id].actual_purchase_quantity = last.planned
    /\ Cardinality(DOMAIN items) >= 2
    /\ lists[items[last.id].shopping_list_id].total_estimated_cost > 0

----------------------------------------------------------------------------
(* Claims on retailer price comparison *)

\* the rows the claims call qualifying for the last query: material_name = m
\* and, under the availability filter, availability_status = in_stock
Qualifying ==
    {r \in DOMAIN prices :
        /\ prices[r].material_name = last.m
        /\ last.flag => prices[r].availability_status = "in_stock"}

\* a row of the queried material that the availability filter leaves out and
\* that is cheaper than every qualifying row
CheaperExcluded(status) ==
    \E x \in DOMAIN prices :
        /\ prices[x].material_name = last.m
        /\ prices[x].availability_status = status
        /\ \A q \in Qualifying : prices[x].unit_price < prices[q].unit_price

\* C8: cheapest returns absence exactly when no row qualifies; otherwise a
\* qualifying row (right material, in stock under the filter) whose unit_price
\* is at most that of every qualifying row.
C8_CheapestQualifies ==
    (last.op = "cheapest") =>
        IF Qualifying = {} THEN last.res = None
        ELSE /\ last.res # None
             /\ Val(last.res) \in Qualifying
             /\ \A q \in Qualifying :
                   prices[Val(last.res)].unit_price <= prices[q].unit_price

C8_Witness ==
    /\ last.op = "cheapest"
    /\ last.flag
    /\ last.res # None
    /\ CheaperExcluded("out_of_stock")
    /\ CheaperExcluded("unknown")

\* C9: average returns absence iff no row matches after the filter (a mean of
\* 0.00 is returned as 0); otherwise the sum of the matching unit_prices over
\* their count, a function of the matching rows alone.
C9_AverageIsMean ==
    (last.op = "average") =>
        /\ (last.res = None) <=> (Qualifying = {})
        /\ (last.res # None) =>
              /\ Val(last.res).den > 0
              /\ Val(last.res).num * Cardinality(Qualifying)
                    = SumPrices(Qualifying) * Val(last.res).den

C9_Witness ==
    /\ last.op = "average"
    /\ last.flag
    /\ last.res # None
    /\ Val(last.res).num = 0
    /\ Cardinality(Qualifying) = 2
    /\ \E x \in DOMAIN prices :
          /\ prices[x].material_name = last.m
          /\ prices[x].availability_status = "out_of_stock"
          /\ prices[x].unit_price > 0

\* C10: compare returns every qualifying row exactly once and no other row,
\* unit_price non-decreasing along the list; the empty list when none matches.
C10_CompareSortedAndComplete ==
    (last.op = "compare") =>
        /\ Len(last.res) = Cardinality(Qualifying)
        /\ {last.res[k] : k \in 1..Len(last.res)} = Qualifying
        /\ \A k \in 1..(Len(last.res) - 1) :
              prices[last.res[k]].unit_price <= prices[last.res[k + 1]].unit_price

C10_Witness ==
    /\ last.op = "compare"
    /\ last.flag
    /\ Len(last.res) = 2
    /\ prices[last.res[1]].unit_price < prices[last.res[2]].unit_price
    /\ \E x \in DOMAIN prices :
          /\ prices[x].material_name = last.m
          /\ prices[x].availability_status = "out_of_stock"
          /\ prices[x].unit_price < prices[last.res[2]].unit_price

----------------------------------------------------------------------------
(* Claims on staleness *)

----------------------------------------------------------------------------
(* Claims on subscriptions *)

\* the subscriptions of user u in the table st
SubsOf(st, u) ==
    {k \in DOMAIN st : k[1] = "Subscription" /\ st[k].user_id = u}

\* C12: after every create, update (of user_id too) and delete there is at
\* most one Subscription row per user; and a create for a user who already
\* has a Subscription raises the integrity error of the unique constraint and
\* leaves the store as it was.
C12_OneSubscriptionPerUser ==
    [][ /\ \A u \in GenIds : Cardinality(SubsOf(store', u)) <= 1
        /\ ( /\ last'.op = "create"
             /\ last'.model = "Subscription"
             /\ SubsOf(store, last'.arg.user_id) # {} )
           => (last'.err = Some("IntegrityError") /\ store' = store) ]_vars

C12_Witness ==
    /\ last.op = "create"
    /\ last.model = "Subscription"
    /\ last.err = Some("IntegrityError")
    /\ <<"UserProfile", last.arg.user_id>> \in DOMAIN store
    /\ Cardinality(SubsOf(store, last.arg.user_id)) = 1
    /\ \E u \in GenIds :
          <<"UserProfile", u>> \in DOMAIN store /\ SubsOf(store, u) = {}

\* the subscriptions the claim names: active, period end set and at or
\* before the threshold
DueBy(before) ==
    {k \in Table("Subscription") :
        /\ store[k].status = "active"
        /\ store[k].current_period_end \in {Some(t) : t \in 0..before}}

\* C20: expiring_soon(threshold) returns only active subscriptions whose
\* current_period_end is set and at or before the threshold, none twice, and
\* with skip = 0 and a limit not below their number every one of them.
C20_ExpiringSoon ==
    (last.op = "expiring_soon") =>
        /\ \A j \in 1..Len(last.res) : last.res[j] \in DueBy(last.before)
        /\ \A j, k \in 1..Len(last.res) : j # k => last.res[j] # last.res[k]
        /\ (last.skip = 0 /\ last.limit >= Cardinality(DueBy(last.before))) =>
              {last.res[j] : j \in 1..Len(last.res)} = DueBy(last.before)

C20_Witness ==
    /\ last.op = "expiring_soon"
    /\ last.skip = 0
    /\ Len(last.res) = 1
    /\ store[last.res[1]].current_period_end = Some(last.before)
    /\ \E k \in Table("Subscription") :
          /\ store[k].status # "active"
          /\ store[k].current_period_end = Some(last.before)

----------------------------------------------------------------------------
(* Claims on ownership and foreign keys *)

\* the rows that belong to user u: the user, its subscription and projects,
\* what refers to those projects, and the feedback naming the user
OwnedBy(u) == CascadeOf({<<"UserProfile", u>>})

\* C13: after the delete of UserProfile u no row that belonged to u remains
\* (subscription, projects, their photos, shopping list, items, phases and
\* feedback, and the feedback naming u), and every row of any other user is
\* as it was.
C13_UserDeleteCascades ==
    [][ (last'.op = "delete" /\ last'.model = "UserProfile" /\ last'.res) =>
          /\ OwnedBy(last'.id) \cap DOMAIN store' = {}
          /\ \A k \in DOMAIN store \ OwnedBy(last'.id) :
                k \in DOMAIN store' /\ store'[k] = store[k] ]_vars

\* rows of st with a foreign key that names no row of st
Dangling(st) ==
    {k \in DOMAIN st :
        \E fk \in ForeignKeys(k[1]) : <<fk[2], st[k][fk[1]]>> \notin DOMAIN st}

\* C14: after every create, update and delete each foreign key of each row
\* names an existing parent row; and a create, or an update of an existing
\* row, that names a parent with no row raises the integrity error and
\* leaves the store as it was.
C14_ForeignKeysResolve ==
    [][ /\ Dangling(store') = {}
        /\ ( /\ last'.op \in {"create", "update"}
             /\ last'.op = "update" => <<last'.model, last'.id>> \in DOMAIN store
             /\ \E fk \in ForeignKeys(last'.model) :
                   /\ fk[1] \in DOMAIN last'.arg
                   /\ <<fk[2], last'.arg[fk[1]]>> \notin DOMAIN store )
           => (last'.err = Some("IntegrityError") /\ store' = store) ]_vars

C14_Witness ==
    /\ last.op = "update"
    /\ last.model = "ShoppingListItem"
    /\ last.err = Some("IntegrityError")
    /\ <<"ShoppingList", last.arg.shopping_list_id>> \notin DOMAIN store
    /\ <<"Project", last.arg.shopping_list_id>> \in DOMAIN store
    /\ <<"ShoppingListItem", last.id>> \in DOMAIN store

\* C19: delete(id) returns true exactly when the row existed; after true the
\* row is gone (get finds nothing, a second delete returns false) and the
\* rows removed are the target and the rows that refer to it through
\* foreign keys, directly or through other removed rows; every other row is
\* as it was.
C19_DeleteFrame ==
    [][ (last'.op = "delete") =>
          /\ last'.res = (<<last'.model, last'.id>> \in DOMAIN store)
          /\ <<last'.model, last'.id>> \notin DOMAIN store'
          /\ last'.res =>
                DOMAIN store \ DOMAIN store'
                    = CascadeOf({<<last'.model, last'.id>>})
          /\ \A k \in DOMAIN store' : k \in DOMAIN store /\ store'[k] = store[k]
      ]_vars

----------------------------------------------------------------------------
(* Claims on the generic repository contract *)

Updated == /\ last'.op = "update" /\ last'.err = None
           /\ <<last'.model, last'.id>> \in DOMAIN store

\* every other row is as it was
OthersKept ==
    /\ DOMAIN store' = DOMAIN store
    /\ \A j \in DOMAIN store \ {<<last'.model, last'.id>>} : store'[j] = store[j]

Wanted ==
    {k \in Table(last.model) :
        \A f \in DOMAIN last.arg :
            f \in Columns(last.model) => store[k][f] = last.arg[f]}

\* the filter without the keys that name no column
Known == [f \in DOMAIN last.arg \cap Columns(last.model) |-> last.arg[f]]

DeclaredDefaults ==
    [Project          |-> [status |-> "draft"],
     ShoppingList     |-> [total_estimated_cost |-> 0],
     ShoppingListItem |-> [purchase_status |-> "not_purchased"],
     RetailerPrice    |-> [availability_status |-> "unknown"],
     Subscription     |-> [cancel_at_period_end |-> FALSE],
     ProjectFeedback  |-> [use_for_training |-> TRUE]]

\* C18: a create that succeeds persists exactly one new row and returns it;
\* its id is the supplied id, or a generated id that no existing row has;
\* supplied columns hold the supplied values and omitted columns their
\* declared defaults; the row is what get(id) then finds and count() is one
\* greater; a create with the id of an existing row fails and persists
\* nothing.
C18_CreatePersistsOneRow ==
    [][ /\ (last'.op = "create" /\ last'.err = None) =>
              LET T == last'.model
                  k == <<last'.model, last'.id>>
              IN
              /\ k \notin DOMAIN store
              /\ DOMAIN store' = DOMAIN store \cup {k}
              /\ \A j \in DOMAIN store : store'[j] = store[j]
              /\ last'.res = Some(store'[k])
              /\ IF "id" \in DOMAIN last'.arg
                 THEN last'.id = last'.arg.id
                 ELSE \A j \in DOMAIN store : j[2] # last'.id
              /\ \A c \in DOMAIN last'.arg \ {"id"} : store'[k][c] = last'.arg[c]
              /\ T \in DOMAIN DeclaredDefaults =>
                    \A c \in DOMAIN DeclaredDefaults[T] \ DOMAIN last'.arg :
                        store'[k][c] = DeclaredDefaults[T][c]
              /\ Cardinality({j \in DOMAIN store' : j[1] = T})
                    = Counted(T, << >>) + 1
        /\ (/\ last'.op = "create" /\ "id" \in DOMAIN last'.arg
            /\ <<last'.model, last'.arg.id>> \in DOMAIN store) =>
              /\ last'.err # None
              /\ store' = store
      ]_vars

\* a shopping-list item created with a generated id and no purchase_status,
\* a project with a supplied id existing
C18_Witness ==
    /\ last.op = "create" /\ last.err = None
    /\ last.model = "ShoppingListItem"
    /\ "purchase_status" \notin DOMAIN last.arg
    /\ store[<<"ShoppingListItem", last.id>>].purchase_status = "not_purchased"
    /\ \E k \in Table("Project") : k[2] \in CallerIds

----------------------------------------------------------------------------
(* Claims on subscription lookups *)

\* the subscriptions whose flag is set
Flagged == {k \in Table("Subscription") : store[k].cancel_at_period_end = TRUE}

\* C21: canceling_at_period_end returns only subscriptions whose
\* cancel_at_period_end flag is true, none twice, whatever their status and
\* period end, and with skip = 0 and a limit not below their number every one
\* of them.
C21_CancelingIsFlagged ==
    (last.op = "canceling") =>
        /\ \A j \in 1..Len(last.res) : last.res[j] \in Flagged
        /\ \A j, k \in 1..Len(last.res) : j # k => last.res[j] # last.res[k]
        /\ (last.skip = 0 /\ last.limit >= Cardinality(Flagged)) =>
              {last.res[j] : j \in 1..Len(last.res)} = Flagged

\* a flagged subscription that is not active is returned while an active,
\* unflagged one exists
C21_Witness ==
    /\ last.op = "canceling"
    /\ last.skip = 0
    /\ Len(last.res) = 1
    /\ store[last.res[1]].status # "active"
    /\ \E k \in Table("Subscription") :
          store[k].status = "active" /\ ~store[k].cancel_at_period_end

----------------------------------------------------------------------------
(* Claims on retailer price versions and value domains *)

\* rows j and k are prices of the same material at the same retailer
SameCombination(j, k) ==
    /\ store[j].material_name = store[k].material_name
    /\ store[j].retailer_name = store[k].retailer_name

\* C22: there is at most one RetailerPrice row for each (material_name,
\* retailer_name) combination, and after a create or update of a price the
\* rows of its combination carry the values just written.
C22_OneRowPerCombination ==
    /\ \A j, k \in Table("RetailerPrice") : SameCombination(j, k) => j = k
    /\ (/\ last.op \in {"create", "update"} /\ last.model = "RetailerPrice"
        /\ last.err = None /\ last.res # None) =>
          \A k \in Table("RetailerPrice") :
              SameCombination(k, <<"RetailerPrice", last.id>>) =>
                  store[k] = Val(last.res)

\* the domains the models declare for their enum-valued fields and the rating
DeclaredDomain(T) ==
    CASE T = "UserProfile"      ->
            [skill_level |-> {"beginner", "intermediate", "expert"}]
      [] T = "Subscription"     ->
            [tier   |-> {"free", "pro", "business"},
             status |-> {"active", "canceled", "past_due", "trialing"}]
      [] T = "Project"          ->
            [status |-> {"draft", "in_progress", "completed"}]
      [] T = "ShoppingListItem" ->
            [purchase_status |-> {"not_purchased", "purchased"}]
      [] T = "RetailerPrice"    ->
            [availability_status |-> {"in_stock", "out_of_stock", "unknown"},
             retailer_name |-> {"home_depot", "lowes", "menards", "ace_hardware"}]
      [] T = "ProjectFeedback"  ->
            [rating |-> {<<>>, <<1>>, <<2>>, <<3>>, <<4>>, <<5>>}]
      [] OTHER                  -> << >>

\* the map names a checked field with a value outside its domain
OutOfDomain(T, obj_in) ==
    \E c \in DOMAIN obj_in \cap DOMAIN DeclaredDomain(T) :
        obj_in[c] \notin DeclaredDomain(T)[c]

\* C23: after every call each persisted enum-valued field lies in its
\* declared domain and each persisted rating is null or in 1..5; a create, or
\* an update of an existing row, that supplies a value outside the domain
\* raises the integrity error and leaves the store as it was.
C23_ValuesInDomain ==
    [][ /\ \A k \in DOMAIN store' : \A c \in DOMAIN DeclaredDomain(k[1]) :
              store'[k][c] \in DeclaredDomain(k[1])[c]
        /\ (/\ last'.op \in {"create", "update"}
            /\ last'.op = "update" => <<last'.model, last'.id>> \in DOMAIN store
            /\ OutOfDomain(last'.model, last'.arg)) =>
              /\ last'.err = Some("IntegrityError")
              /\ store' = store
      ]_vars

\* an update of a feedback's rating to 6 was refused, the stored rating is 5
C23_Witness ==
    /\ last.op = "update" /\ last.model = "ProjectFeedback"
    /\ last.arg = [rating |-> Some(6)]
    /\ last.err = Some("IntegrityError")
    /\ store[<<"ProjectFeedback", last.id>>].rating = Some(5)

----------------------------------------------------------------------------
(* Claims on errors *)

\* the map names a field the entity does not have
NamesUnknownField(T, obj_in) == \E f \in DOMAIN obj_in : ~HasAttr(T, f)

\* C24: a create, or an update of an existing row, whose map names a field
\* the entity does not have raises an error; only get_multi and count drop
\* an unknown key and report success.
C24_UnknownFieldIsAnError ==
    [][ (/\ last'.op \in {"create", "update"}
         /\ last'.op = "update" => <<last'.model, last'.id>> \in DOMAIN store
         /\ NamesUnknownField(last'.model, last'.arg)) =>
            last'.err # None
      ]_vars

----------------------------------------------------------------------------
(* Claims on concurrent sessions *)

\* no session is in the middle of a call
AllFinished == \A s \in Sessions : txn[s] = Idle

\* C25: the total a recalculate_total commits equals the sum of the costs of
\* the list's items in the store at its commit.
C25_RecalculateIsAtomic ==
    (last.op = "recalculate_total_commit" /\ last.err = None) =>
        lists[last.id].total_estimated_cost = CurrentSum(last.id)

\* C26: once every call has finished, the total of a list some
\* recalculate_total committed is the value assigned by the one that
\* committed last.
C26_LastRecalculateWins ==
    AllFinished =>
        \A l \in DOMAIN lists :
            done.total[l] # None =>
                lists[l].total_estimated_cost = Val(done.total[l])

\* C30: once every call has finished, the actual_unit_price and
\* actual_total_cost of an item some mark_purchased committed are the price
\* and the total of one and the same call.
C30_PriceAndTotalOfOneCall ==
    AllFinished =>
        \A i \in DOMAIN items :
            done.pairs[i] # {} =>
                <<items[i].actual_unit_price, items[i].actual_total_cost>>
                    \in done.pairs[i]

----------------------------------------------------------------------------
(* Claims on the derived price queries *)

\* the lists compare_retailers can return for the arguments of the last call
\* over the store as it is
CompareResults == Orderings(Matching(last.m, last.flag))

RECURSIVE SumOfRows(_)
SumOfRows(s) ==
    IF Len(s) = 0 THEN 0 ELSE prices[Head(s)].unit_price + SumOfRows(Tail(s))

\* C27: over one store and the same arguments, cheapest returns absence
\* exactly when compare returns the empty list and otherwise a row priced as
\* the first row of compare; average returns absence exactly when compare
\* returns the empty list and otherwise the mean of the unit_price of
\* compare's rows.
C27_DerivedQueriesAgreeWithCompare ==
    /\ (last.op = "cheapest") =>
          \A s \in CompareResults :
              /\ (last.res = None) <=> (Len(s) = 0)
              /\ (last.res # None) =>
                    prices[Val(last.res)].unit_price = prices[s[1]].unit_price
    /\ (last.op = "average") =>
          \A s \in CompareResults :
              /\ (last.res = None) <=> (Len(s) = 0)
              /\ (last.res # None) =>
                    /\ Val(last.res).den > 0
                    /\ Val(last.res).num * Len(s) = SumOfRows(s) * Val(last.res).den

\* cheapest returned a row while compare may list another row of the same
\* price first, a dearer row after it
C27_Witness ==
    /\ last.op = "cheapest"
    /\ last.res # None
    /\ \E s \in CompareResults :
          /\ Len(s) = 3
          /\ s[1] # Val(last.res)
          /\ prices[s[1]].unit_price < prices[s[3]].unit_price

----------------------------------------------------------------------------
(* Claims on paging *)

\* the ids of the rows of a list of keys
RowsOf(s) == {s[k] : k \in 1..Len(s)}

\* C28: with no write in between, get_multi(skip=s, limit=l, filters) returns
\* min(l, max(0, n - s)) rows, n the number of matching rows; the successive
\* pages of one limit are pairwise disjoint, and once the last page is read
\* they hold every matching row exactly once.
C28_PagesPartitionTheRows ==
    (last.op = "page") =>
        LET n == Cardinality(Filtered(last.model, last.arg))
            rest == IF n > last.skip THEN n - last.skip ELSE 0
        IN  /\ Len(last.res) = IF last.limit < rest THEN last.limit ELSE rest
            /\ RowsOf(last.res) \cap RowsOf(last.before) = {}
            /\ Len(last.res) < last.limit =>
                  /\ RowsOf(last.before \o last.res)
                        = Filtered(last.model, last.arg)
                  /\ Len(last.before \o last.res) = n

----------------------------------------------------------------------------
(* Claims on subscription lookups by Stripe ids *)

\* C29: get_by_user_id, get_by_stripe_subscription_id and
\* get_by_stripe_customer_id never fail: each returns absence or one
\* subscription whose column holds the value asked for.
C29_LookupsNeverFail ==
    (last.op \in {"get_by_user_id", "get_by_stripe_subscription_id",
                  "get_by_stripe_customer_id"}) =>
        /\ last.err = None
        /\ last.res # None =>
              CASE last.op = "get_by_user_id" ->
                      store[Val(last.res)].user_id = last.arg
                [] last.op = "get_by_stripe_subscription_id" ->
                      store[Val(last.res)].stripe_subscription_id = Some(last.arg)
                [] last.op = "get_by_stripe_customer_id" ->
                      store[Val(last.res)].stripe_customer_id = last.arg

=============================================================================
